---- MODULE Spec2Model ----
(***************************************************************************)
(* bolha-lambda-monitor: the Handler of the monitor lambda, its per-item   *)
(* goroutines, the concurrent remove/upload of a re-upload, and the        *)
(* ordered parallel download of S3 images.                                 *)
(*                                                                         *)
(* Two revisions of the program are modelled side by side, selected by the *)
(* variable "version":                                                     *)
(*   "main"  - src/main.go            (removeChan/uploadChan/errChan1)     *)
(*   "part2" - src/unnamed/part_002   (processItem with a WaitGroup)       *)
(* They differ only in the re-upload path.                                 *)
(*                                                                         *)
(* Values: an error is a tuple <<kind, item, index>>, the nil error is the *)
(* empty tuple; an image is <<"img", key>>, a nil image the empty tuple.   *)
(***************************************************************************)
EXTENDS Integers, Sequences, FiniteSets, TLC

\* ------------------------------------------------------------------ bounds
MaxItems == 2
MaxItemImages == 1
MaxImages == 2
MaxOrder == 1
MaxHours == 1

\* model time units per hour (time.Hour)
Hour == 2

Versions == {"main", "part2"}

Nil == <<>>

OldId == 1
NewIds == {2, 3}

Keys == 1..MaxImages

RECURSIVE SeqsUpTo(_, _)
SeqsUpTo(S, n) ==
  IF n = 0 THEN {<<>>}
  ELSE LET shorter == SeqsUpTo(S, n - 1)
       IN shorter \cup {Append(s, x) : s \in {t \in shorter : Len(t) = n - 1}, x \in S}

VARIABLES
  version,       \* which revision of the program runs
  table,         \* DynamoDB table "Bolha": item key -> record
  env,           \* per item: rank the remote service reports, age of the
                 \* stored timestamp, id the remote service assigns next
  remote,        \* ads present on the remote service, per item
  bItems,        \* Handler: result of getBolhaItems
  hPc,           \* Handler main flow: "scan", "range", "returned"
  hRet,          \* Handler: returned error (Nil for none)
  errChan,       \* Handler errChan (unbuffered): "open" or "closed"
  hCloser,       \* Handler closer goroutine: "idle", "wait", "done"
  pc,            \* per-item goroutine position
  result,        \* per-item outcome: <<"pending">>, <<"ok">> or an error
  newUploadedId, \* per-item local newUploadedId
  upPc,          \* uploadAd position: "idle", "dl", "call", "ret"
  fetchPc,       \* downloadS3Images: per image goroutine position
  s3Images,      \* downloadS3Images: result slots
  dlErrChan,     \* downloadS3Images: buffered errChan contents
  dlClosed,      \* downloadS3Images: errChan closed
  dlCloser,      \* downloadS3Images: closer goroutine
  dlRet,         \* downloadS3Images: returned value
  rmPc,          \* re-upload: remove goroutine
  upG,           \* re-upload: upload goroutine
  errChan1,      \* re-upload: buffered error channel contents
  errChan1Closed,\* re-upload: error channel closed
  rCloser,       \* re-upload (part2): closer goroutine
  removeChan,    \* re-upload (main): removeChan contents
  uploadChan,    \* re-upload (main): uploadChan contents
  thPc           \* re-upload (main): third goroutine

hVars == <<version, bItems, hPc, hRet, errChan, hCloser>>
uVars == <<pc, result, newUploadedId>>
dVars == <<upPc, fetchPc, s3Images, dlErrChan, dlClosed, dlCloser, dlRet>>
rVars == <<rmPc, upG, errChan1, errChan1Closed, rCloser, removeChan, uploadChan, thPc>>
vars == <<table, env, remote, hVars, uVars, dVars, rVars>>

It == DOMAIN table

Pending == <<"pending">>
Ok == <<"ok">>

\* ------------------------------------------------------------- pure parts

\* the blob stored under an image key
Blob(key) == <<"img", key>>

\* time.Parse(time.RFC3339, s) succeeds
ParseOk(s) == s # ""

\* faulty variant: the age comparison is not strict
IsOld_AgeInclusive(order, age, item) ==
  order > item.ReuploadOrder \/ age >= item.ReuploadHours * Hour

\* the re-upload condition
IsOld(order, age, item) ==
  order > item.ReuploadOrder \/ age > item.ReuploadHours * Hour

\* ---------------------------------------------------------------- inputs

\* a scenario is a table record with what the environment holds for it
Scenarios(imageLists, allowedOrders, allowedHours, orders, ages, ids) ==
  {<<[AdUploadedId |-> 0, AdUploadedAt |-> "", AdImages |-> imgs,
      ReuploadOrder |-> o, ReuploadHours |-> h],
     [Order |-> 0, Age |-> 0, NewId |-> id]>> :
     imgs \in imageLists, o \in allowedOrders, h \in allowedHours, id \in ids}
  \cup
  {<<[AdUploadedId |-> OldId, AdUploadedAt |-> "", AdImages |-> imgs,
      ReuploadOrder |-> o, ReuploadHours |-> h],
     [Order |-> 0, Age |-> 0, NewId |-> id]>> :
     imgs \in imageLists, o \in allowedOrders, h \in allowedHours, id \in ids}
  \cup
  {<<[AdUploadedId |-> OldId, AdUploadedAt |-> "t0", AdImages |-> imgs,
      ReuploadOrder |-> o, ReuploadHours |-> h],
     [Order |-> r, Age |-> a, NewId |-> id]>> :
     imgs \in imageLists, o \in allowedOrders, h \in allowedHours,
     r \in orders, a \in ages, id \in ids}

Prefixes(n) == {[k \in 1..m |-> k] : m \in 0..n}

\* a batch of items: few images, one threshold, rank at and above it
BatchScenarios ==
  Scenarios(Prefixes(MaxItemImages), {MaxOrder}, {MaxHours},
            {MaxOrder, MaxOrder + 1}, {MaxHours * Hour}, {OldId + 1})

\* one item: every threshold, rank and age around the thresholds
SingleScenarios ==
  Scenarios(Prefixes(MaxItemImages), 0..MaxOrder, 0..MaxHours,
            0..(MaxOrder + 1), 0..(MaxHours * Hour + 1), NewIds)

\* one item: every list of image keys
FetchScenarios ==
  Scenarios(SeqsUpTo(Keys, MaxImages), {MaxOrder}, {MaxHours},
            {MaxOrder + 1}, {0}, {OldId + 1})

InitRest ==
  /\ version \in Versions
  /\ remote = [i \in It |-> IF table[i].AdUploadedId = 0 THEN {} ELSE {table[i].AdUploadedId}]
  /\ bItems = <<>>
  /\ hPc = "scan"
  /\ hRet = Nil
  /\ errChan = "open"
  /\ hCloser = "idle"
  /\ pc = [i \in It |-> "idle"]
  /\ result = [i \in It |-> Pending]
  /\ newUploadedId = [i \in It |-> 0]
  /\ upPc = [i \in It |-> "idle"]
  /\ fetchPc = [i \in It |-> <<>>]
  /\ s3Images = [i \in It |-> <<>>]
  /\ dlErrChan = [i \in It |-> <<>>]
  /\ dlClosed = [i \in It |-> FALSE]
  /\ dlCloser = [i \in It |-> "idle"]
  /\ dlRet = [i \in It |-> [st |-> "pending", imgs |-> <<>>, err |-> Nil]]
  /\ rmPc = [i \in It |-> "idle"]
  /\ upG = [i \in It |-> "idle"]
  /\ errChan1 = [i \in It |-> <<>>]
  /\ errChan1Closed = [i \in It |-> FALSE]
  /\ rCloser = [i \in It |-> "idle"]
  /\ removeChan = [i \in It |-> <<>>]
  /\ uploadChan = [i \in It |-> <<>>]
  /\ thPc = [i \in It |-> "idle"]

InitFrom(scenarios, sizes) ==
  /\ \E n \in sizes : \E sc \in [1..n -> scenarios] :
       /\ table = [i \in 1..n |-> sc[i][1]]
       /\ env = [i \in 1..n |-> sc[i][2]]
  /\ InitRest

Init == InitFrom(BatchScenarios, 0..MaxItems)

InitItem == InitFrom(SingleScenarios, {1})

InitFetch == InitFrom(FetchScenarios, {1})

\* three items: one never uploaded, one uploaded and ranked too low, one
\* uploaded and neither ranked too low nor too old
InitTrio ==
  /\ \E imgs \in Prefixes(MaxItemImages) :
       /\ table = << [AdUploadedId |-> 0, AdUploadedAt |-> "", AdImages |-> imgs,
                      ReuploadOrder |-> MaxOrder, ReuploadHours |-> MaxHours],
                     [AdUploadedId |-> OldId, AdUploadedAt |-> "t0", AdImages |-> imgs,
                      ReuploadOrder |-> MaxOrder, ReuploadHours |-> MaxHours],
                     [AdUploadedId |-> OldId, AdUploadedAt |-> "t0", AdImages |-> imgs,
                      ReuploadOrder |-> MaxOrder, ReuploadHours |-> MaxHours] >>
       /\ env = << [Order |-> 0, Age |-> 0, NewId |-> OldId + 1],
                   [Order |-> MaxOrder + 1, Age |-> 0, NewId |-> OldId + 2],
                   [Order |-> MaxOrder, Age |-> MaxHours * Hour, NewId |-> OldId + 1] >>
  /\ InitRest

\* ----------------------------------------------------------------- Handler

\* faulty variant: the goroutines are launched before the error of getBolhaItems
\* is looked at
Scan_LaunchesAnyway ==
  /\ hPc = "scan"
  /\ bItems' = table
  /\ pc' = [i \in It |-> "start"]
  /\ hCloser' = "wait"
  /\ \/ /\ \E kind \in {"scan", "unmarshal"} : hRet' = <<kind, 0, 0>>
        /\ hPc' = "returned"
     \/ /\ hPc' = "range"
        /\ UNCHANGED hRet
  /\ UNCHANGED <<version, env, errChan, table, remote, result, newUploadedId, dVars, rVars>>

\* getBolhaItems returns; on success one goroutine per item and the closer
\* goroutine are launched and the main flow enters its range loop
Scan ==
  /\ hPc = "scan"
  /\ \/ /\ \E kind \in {"scan", "unmarshal"} : hRet' = <<kind, 0, 0>>
        /\ hPc' = "returned"
        /\ UNCHANGED <<bItems, hCloser, pc>>
     \/ /\ bItems' = table
        /\ pc' = [i \in It |-> "start"]
        /\ hCloser' = "wait"
        /\ hPc' = "range"
        /\ UNCHANGED hRet
  /\ UNCHANGED <<version, env, errChan, table, remote, result, newUploadedId, dVars, rVars>>

\* the unbuffered send errChan <- err of item i meets the receive of the
\* range loop, whose body returns the error
HandlerRecv(i) ==
  /\ hPc = "range"
  /\ errChan = "open"
  /\ pc[i] = "send"
  /\ hRet' = result[i]
  /\ hPc' = "returned"
  /\ pc' = [pc EXCEPT ![i] = "deferDone"]
  /\ UNCHANGED <<version, env, bItems, errChan, hCloser, table, remote, result,
                 newUploadedId, dVars, rVars>>

\* faulty variant: the main flow does not block on errChan and returns nil when no
\* error is ready
HandlerRangeClosed_NoBlock ==
  /\ hPc = "range"
  /\ \A i \in It : pc[i] # "send"
  /\ hRet' = Nil
  /\ hPc' = "returned"
  /\ UNCHANGED <<version, env, bItems, errChan, hCloser, table, remote, uVars, dVars, rVars>>

\* the range loop ends on the closed channel: return nil
HandlerRangeClosed ==
  /\ hPc = "range"
  /\ errChan = "closed"
  /\ hRet' = Nil
  /\ hPc' = "returned"
  /\ UNCHANGED <<version, env, bItems, errChan, hCloser, table, remote, uVars, dVars, rVars>>

\* faulty variant: the closer goroutine closes errChan once some item goroutine has
\* run wg.Done
HandlerCloser_NoWait ==
  /\ hCloser = "wait"
  /\ \E i \in It : pc[i] = "done"
  /\ \A i \in It : pc[i] # "send"
  /\ errChan' = "closed"
  /\ hCloser' = "done"
  /\ UNCHANGED <<version, env, bItems, hPc, hRet, table, remote, uVars, dVars, rVars>>

\* wg.Wait() returns once every item goroutine has run wg.Done; close(errChan)
HandlerCloser ==
  /\ hCloser = "wait"
  /\ \A i \in It : pc[i] = "done"
  /\ errChan' = "closed"
  /\ hCloser' = "done"
  /\ UNCHANGED <<version, env, bItems, hPc, hRet, table, remote, uVars, dVars, rVars>>

\* defer wg.Done() of an item goroutine
ItemDone(i) ==
  /\ pc[i] = "deferDone"
  /\ pc' = [pc EXCEPT ![i] = "done"]
  /\ UNCHANGED <<hVars, env, table, remote, result, newUploadedId, dVars, rVars>>

\* ------------------------------------------------- uploadAd, downloadS3Images

\* uploadAd calls downloadS3Images, which launches one goroutine per image
\* and the closer goroutine, then ranges over errChan
StartUpload(i) ==
  LET n == Len(bItems[i].AdImages) IN
  /\ upPc' = [upPc EXCEPT ![i] = "dl"]
  /\ fetchPc' = [fetchPc EXCEPT ![i] = [k \in 1..n |-> "run"]]
  /\ s3Images' = [s3Images EXCEPT ![i] = [k \in 1..n |-> Nil]]
  /\ dlCloser' = [dlCloser EXCEPT ![i] = "wait"]
  /\ UNCHANGED <<dlErrChan, dlClosed, dlRet>>

\* uploadAd returns (id, err) to whoever called it: the item goroutine itself
\* (first upload) or the upload goroutine of a re-upload
UploadReturned(i, id, err) ==
  /\ upPc' = [upPc EXCEPT ![i] = "ret"]
  /\ IF pc[i] = "create"
     THEN /\ IF err # Nil
             THEN /\ result' = [result EXCEPT ![i] = err]
                  /\ pc' = [pc EXCEPT ![i] = "send"]
                  /\ UNCHANGED newUploadedId
             ELSE /\ newUploadedId' = [newUploadedId EXCEPT ![i] = id]
                  /\ pc' = [pc EXCEPT ![i] = "update"]
                  /\ UNCHANGED result
          /\ UNCHANGED <<upG, errChan1, uploadChan>>
     ELSE /\ UNCHANGED <<pc, result>>
          /\ upG' = [upG EXCEPT ![i] = IF version = "main" THEN "done" ELSE "deferDone"]
          /\ IF err # Nil
             THEN /\ errChan1' = [errChan1 EXCEPT ![i] = Append(@, err)]
                  /\ UNCHANGED <<newUploadedId, uploadChan>>
             ELSE IF version = "main"
                  THEN /\ uploadChan' = [uploadChan EXCEPT ![i] = Append(@, id)]
                       /\ UNCHANGED <<newUploadedId, errChan1>>
                  ELSE /\ newUploadedId' = [newUploadedId EXCEPT ![i] = id]
                       /\ UNCHANGED <<uploadChan, errChan1>>

\* faulty variant: an image is appended in completion order instead of stored in
\* the slot of its key
FetchReturn_CompletionOrder(i, k) ==
  /\ k \in DOMAIN fetchPc[i]
  /\ fetchPc[i][k] = "run"
  /\ \/ /\ fetchPc' = [fetchPc EXCEPT ![i][k] = "send"]
        /\ UNCHANGED s3Images
     \/ /\ fetchPc' = [fetchPc EXCEPT ![i][k] = "deferDone"]
        /\ LET free == {l \in DOMAIN s3Images[i] : s3Images[i][l] = Nil}
               first == CHOOSE l \in free : \A m \in free : l <= m
           IN s3Images' = [s3Images EXCEPT ![i][first] = Blob(bItems[i].AdImages[k])]
  /\ UNCHANGED <<hVars, env, table, remote, uVars, upPc, dlErrChan, dlClosed, dlCloser, dlRet, rVars>>

\* faulty variant: a failed download is not reported on errChan
FetchReturn_ErrorDropped(i, k) ==
  /\ k \in DOMAIN fetchPc[i]
  /\ fetchPc[i][k] = "run"
  /\ fetchPc' = [fetchPc EXCEPT ![i][k] = "deferDone"]
  /\ \/ UNCHANGED <<dlErrChan, s3Images>>
     \/ /\ s3Images' = [s3Images EXCEPT ![i][k] = Blob(bItems[i].AdImages[k])]
        /\ UNCHANGED dlErrChan
  /\ UNCHANGED <<hVars, env, table, remote, uVars, upPc, dlClosed, dlCloser, dlRet, rVars>>

\* one image goroutine: downloadS3Image returns; on an error the goroutine
\* goes to its send on errChan, otherwise the image is stored in its slot
FetchReturn(i, k) ==
  /\ k \in DOMAIN fetchPc[i]
  /\ fetchPc[i][k] = "run"
  /\ \/ /\ fetchPc' = [fetchPc EXCEPT ![i][k] = "send"]
        /\ UNCHANGED s3Images
     \/ /\ fetchPc' = [fetchPc EXCEPT ![i][k] = "deferDone"]
        /\ s3Images' = [s3Images EXCEPT ![i][k] = Blob(bItems[i].AdImages[k])]
  /\ UNCHANGED <<hVars, env, table, remote, uVars, upPc, dlErrChan, dlClosed, dlCloser, dlRet, rVars>>

\* faulty variant: errChan of downloadS3Images has no buffer, a send needs the
\* range loop to be receiving
FetchSend_Unbuffered(i, k) ==
  /\ k \in DOMAIN fetchPc[i]
  /\ fetchPc[i][k] = "send"
  /\ upPc[i] = "dl"
  /\ dlErrChan[i] = <<>>
  /\ dlErrChan' = [dlErrChan EXCEPT ![i] = Append(@, <<"fetch", i, k>>)]
  /\ fetchPc' = [fetchPc EXCEPT ![i][k] = "deferDone"]
  /\ UNCHANGED <<hVars, env, table, remote, uVars, upPc, s3Images, dlClosed, dlCloser, dlRet, rVars>>

\* errChan <- err of an image goroutine: the send goes through when the
\* buffer, of capacity len(images), has room
FetchSend(i, k) ==
  /\ k \in DOMAIN fetchPc[i]
  /\ fetchPc[i][k] = "send"
  /\ Len(dlErrChan[i]) < Len(bItems[i].AdImages)
  /\ dlErrChan' = [dlErrChan EXCEPT ![i] = Append(@, <<"fetch", i, k>>)]
  /\ fetchPc' = [fetchPc EXCEPT ![i][k] = "deferDone"]
  /\ UNCHANGED <<hVars, env, table, remote, uVars, upPc, s3Images, dlClosed, dlCloser, dlRet, rVars>>

\* defer wg.Done() of an image goroutine
FetchDone(i, k) ==
  /\ k \in DOMAIN fetchPc[i]
  /\ fetchPc[i][k] = "deferDone"
  /\ fetchPc' = [fetchPc EXCEPT ![i][k] = "done"]
  /\ UNCHANGED <<hVars, env, table, remote, uVars, upPc, s3Images, dlErrChan, dlClosed,
                 dlCloser, dlRet, rVars>>

\* faulty variant: the closer goroutine closes errChan without wg.Wait()
DownloadCloser_NoWait(i) ==
  /\ dlCloser[i] = "wait"
  /\ \A k \in DOMAIN fetchPc[i] : fetchPc[i][k] \notin {"run", "send"}
  /\ dlClosed' = [dlClosed EXCEPT ![i] = TRUE]
  /\ dlCloser' = [dlCloser EXCEPT ![i] = "done"]
  /\ UNCHANGED <<hVars, env, table, remote, uVars, upPc, fetchPc, s3Images, dlErrChan,
                 dlRet, rVars>>

\* closer goroutine of downloadS3Images: wg.Wait(); close(errChan)
DownloadCloser(i) ==
  /\ dlCloser[i] = "wait"
  /\ \A k \in DOMAIN fetchPc[i] : fetchPc[i][k] = "done"
  /\ dlClosed' = [dlClosed EXCEPT ![i] = TRUE]
  /\ dlCloser' = [dlCloser EXCEPT ![i] = "done"]
  /\ UNCHANGED <<hVars, env, table, remote, uVars, upPc, fetchPc, s3Images, dlErrChan,
                 dlRet, rVars>>

\* the range loop of downloadS3Images receives an error: return nil, err;
\* uploadAd returns 0, err
DownloadRangeErr(i) ==
  /\ upPc[i] = "dl"
  /\ dlErrChan[i] # <<>>
  /\ dlErrChan' = [dlErrChan EXCEPT ![i] = Tail(@)]
  /\ dlRet' = [dlRet EXCEPT ![i] = [st |-> "err", imgs |-> <<>>, err |-> Head(dlErrChan[i])]]
  /\ UploadReturned(i, 0, Head(dlErrChan[i]))
  /\ UNCHANGED <<hVars, env, table, remote, fetchPc, s3Images,
                 dlClosed, dlCloser, rmPc, errChan1Closed, rCloser, removeChan, thPc>>

\* faulty variant: downloadS3Images does not block on errChan and returns the images
\* when no error is ready
DownloadRangeClosed_NoBlock(i) ==
  /\ upPc[i] = "dl"
  /\ dlErrChan[i] = <<>>
  /\ dlRet' = [dlRet EXCEPT ![i] = [st |-> "ok", imgs |-> s3Images[i], err |-> Nil]]
  /\ upPc' = [upPc EXCEPT ![i] = "call"]
  /\ UNCHANGED <<hVars, env, table, remote, uVars, fetchPc, s3Images, dlErrChan, dlClosed,
                 dlCloser, rVars>>

\* the range loop of downloadS3Images ends on the closed, drained channel:
\* return s3Images, nil; uploadAd goes on to call c.UploadAd
DownloadRangeClosed(i) ==
  /\ upPc[i] = "dl"
  /\ dlErrChan[i] = <<>>
  /\ dlClosed[i]
  /\ dlRet' = [dlRet EXCEPT ![i] = [st |-> "ok", imgs |-> s3Images[i], err |-> Nil]]
  /\ upPc' = [upPc EXCEPT ![i] = "call"]
  /\ UNCHANGED <<hVars, env, table, remote, uVars, fetchPc, s3Images, dlErrChan, dlClosed,
                 dlCloser, rVars>>

\* faulty variant: the new id is written to the table as soon as c.UploadAd
\* has returned it
UploadAdReturn_PersistsEarly(i) ==
  /\ upPc[i] = "call"
  /\ \/ /\ UploadReturned(i, 0, <<"upload", i, 0>>)
        /\ UNCHANGED <<remote, table>>
     \/ /\ UploadReturned(i, env[i].NewId, Nil)
        /\ remote' = [remote EXCEPT ![i] = @ \cup {env[i].NewId}]
        /\ table' = [table EXCEPT ![i].AdUploadedId = env[i].NewId,
                                  ![i].AdUploadedAt = "now"]
  /\ UNCHANGED <<hVars, env, fetchPc, s3Images, dlErrChan,
                 dlClosed, dlCloser, dlRet, rmPc, errChan1Closed, rCloser,
                 removeChan, thPc>>

\* c.UploadAd returns
UploadAdReturn(i) ==
  /\ upPc[i] = "call"
  /\ \/ /\ UploadReturned(i, 0, <<"upload", i, 0>>)
        /\ UNCHANGED remote
     \/ /\ UploadReturned(i, env[i].NewId, Nil)
        /\ remote' = [remote EXCEPT ![i] = @ \cup {env[i].NewId}]
  /\ UNCHANGED <<hVars, env, table, fetchPc, s3Images, dlErrChan,
                 dlClosed, dlCloser, dlRet, rmPc, errChan1Closed, rCloser,
                 removeChan, thPc>>

\* ------------------------------------------------------------ item goroutine

\* faulty variant: the test of AdUploadedId is missing and every item goes on
\* to c.GetActiveAd
NewClient_AlwaysQuery(i) ==
  /\ pc[i] = "start"
  /\ \/ /\ result' = [result EXCEPT ![i] = <<"client", i, 0>>]
        /\ pc' = [pc EXCEPT ![i] = "send"]
     \/ /\ pc' = [pc EXCEPT ![i] = "getActive"]
        /\ UNCHANGED result
  /\ UNCHANGED <<hVars, env, table, remote, newUploadedId, dVars, rVars>>

\* client.NewWithSessionId returns; an item never uploaded goes on to uploadAd
NewClient(i) ==
  /\ pc[i] = "start"
  /\ \/ /\ result' = [result EXCEPT ![i] = <<"client", i, 0>>]
        /\ pc' = [pc EXCEPT ![i] = "send"]
        /\ UNCHANGED dVars
     \/ /\ bItems[i].AdUploadedId = 0
        /\ pc' = [pc EXCEPT ![i] = "create"]
        /\ StartUpload(i)
        /\ UNCHANGED result
     \/ /\ bItems[i].AdUploadedId # 0
        /\ pc' = [pc EXCEPT ![i] = "getActive"]
        /\ UNCHANGED <<result, dVars>>
  /\ UNCHANGED <<hVars, env, table, remote, newUploadedId, rVars>>

\* faulty variant: the update expression sets AdUploadedAt only
WriteUploadedId_KeepsId(i) ==
  [table EXCEPT ![i].AdUploadedAt = "now"]

\* the UpdateItem of updateUploadedId
WriteUploadedId(i) ==
  [table EXCEPT ![i].AdUploadedId = newUploadedId[i], ![i].AdUploadedAt = "now"]

\* faulty variant: the error of updateUploadedId is not returned
UpdateReturn_ErrorSwallowed(i) ==
  /\ pc[i] = "update"
  /\ \/ table' = WriteUploadedId(i)
     \/ UNCHANGED table
  /\ result' = [result EXCEPT ![i] = Ok]
  /\ pc' = [pc EXCEPT ![i] = "deferDone"]
  /\ UNCHANGED <<hVars, env, remote, newUploadedId, dVars, rVars>>

\* updateUploadedId returns to the item goroutine (first upload in both
\* revisions, re-upload in part2)
UpdateReturn(i) ==
  /\ pc[i] = "update"
  /\ \/ /\ table' = WriteUploadedId(i)
        /\ result' = [result EXCEPT ![i] = Ok]
        /\ pc' = [pc EXCEPT ![i] = "deferDone"]
     \/ /\ result' = [result EXCEPT ![i] = <<"update", i, 0>>]
        /\ pc' = [pc EXCEPT ![i] = "send"]
        /\ UNCHANGED table
  /\ UNCHANGED <<hVars, env, remote, newUploadedId, dVars, rVars>>
\* faulty variant: the error of time.Parse is ignored and the comparison goes on
GetActiveReturn_ParseIgnored(i) ==
  /\ pc[i] = "getActive"
  /\ \/ /\ result' = [result EXCEPT ![i] = <<"status", i, 0>>]
        /\ pc' = [pc EXCEPT ![i] = "send"]
        /\ UNCHANGED <<dVars, rmPc, upG, rCloser, thPc>>
     \/ IF FALSE
        THEN /\ result' = [result EXCEPT ![i] = <<"parse", i, 0>>]
             /\ pc' = [pc EXCEPT ![i] = "send"]
             /\ UNCHANGED <<dVars, rmPc, upG, rCloser, thPc>>
        ELSE IF IsOld(env[i].Order, env[i].Age, bItems[i])
             THEN /\ pc' = [pc EXCEPT ![i] = "reupload"]
                  /\ rmPc' = [rmPc EXCEPT ![i] = "run"]
                  /\ upG' = [upG EXCEPT ![i] = "run"]
                  /\ StartUpload(i)
                  /\ IF version = "main"
                     THEN /\ thPc' = [thPc EXCEPT ![i] = "recvRemove"]
                          /\ UNCHANGED rCloser
                     ELSE /\ rCloser' = [rCloser EXCEPT ![i] = "wait"]
                          /\ UNCHANGED thPc
                  /\ UNCHANGED result
             ELSE /\ result' = [result EXCEPT ![i] = Ok]
                  /\ pc' = [pc EXCEPT ![i] = "deferDone"]
                  /\ UNCHANGED <<dVars, rmPc, upG, rCloser, thPc>>
  /\ UNCHANGED <<hVars, env, table, remote, newUploadedId, errChan1, errChan1Closed,
                 removeChan, uploadChan>>

\* c.GetActiveAd returns, then time.Parse, then the re-upload condition; an
\* old ad launches the remove goroutine, the upload goroutine and the third
\* goroutine (main) or the closer goroutine (part2)
GetActiveReturn(i) ==
  /\ pc[i] = "getActive"
  /\ \/ /\ result' = [result EXCEPT ![i] = <<"status", i, 0>>]
        /\ pc' = [pc EXCEPT ![i] = "send"]
        /\ UNCHANGED <<dVars, rmPc, upG, rCloser, thPc>>
     \/ IF ~ParseOk(bItems[i].AdUploadedAt)
        THEN /\ result' = [result EXCEPT ![i] = <<"parse", i, 0>>]
             /\ pc' = [pc EXCEPT ![i] = "send"]
             /\ UNCHANGED <<dVars, rmPc, upG, rCloser, thPc>>
        ELSE IF IsOld(env[i].Order, env[i].Age, bItems[i])
             THEN /\ pc' = [pc EXCEPT ![i] = "reupload"]
                  /\ rmPc' = [rmPc EXCEPT ![i] = "run"]
                  /\ upG' = [upG EXCEPT ![i] = "run"]
                  /\ StartUpload(i)
                  /\ IF version = "main"
                     THEN /\ thPc' = [thPc EXCEPT ![i] = "recvRemove"]
                          /\ UNCHANGED rCloser
                     ELSE /\ rCloser' = [rCloser EXCEPT ![i] = "wait"]
                          /\ UNCHANGED thPc
                  /\ UNCHANGED result
             ELSE /\ result' = [result EXCEPT ![i] = Ok]
                  /\ pc' = [pc EXCEPT ![i] = "deferDone"]
                  /\ UNCHANGED <<dVars, rmPc, upG, rCloser, thPc>>
  /\ UNCHANGED <<hVars, env, table, remote, newUploadedId, errChan1, errChan1Closed,
                 removeChan, uploadChan>>

\* ------------------------------------------------------------------ re-upload

\* faulty variant: the remove goroutine does not report the error of c.RemoveAd
RemoveReturn_ErrorSwallowed(i) ==
  /\ rmPc[i] = "run"
  /\ rmPc' = [rmPc EXCEPT ![i] = IF version = "main" THEN "done" ELSE "deferDone"]
  /\ \/ UNCHANGED remote
     \/ remote' = [remote EXCEPT ![i] = @ \ {bItems[i].AdUploadedId}]
  /\ removeChan' = [removeChan EXCEPT ![i] = IF version = "main" THEN Append(@, "x") ELSE @]
  /\ UNCHANGED <<hVars, env, table, uVars, dVars, upG, errChan1, errChan1Closed, rCloser,
                 uploadChan, thPc>>

\* remove goroutine: c.RemoveAd returns
RemoveReturn(i) ==
  /\ rmPc[i] = "run"
  /\ rmPc' = [rmPc EXCEPT ![i] = IF version = "main" THEN "done" ELSE "deferDone"]
  /\ \/ /\ errChan1' = [errChan1 EXCEPT ![i] = Append(@, <<"remove", i, 0>>)]
        /\ UNCHANGED <<remote, removeChan>>
     \/ /\ remote' = [remote EXCEPT ![i] = @ \ {bItems[i].AdUploadedId}]
        /\ removeChan' = [removeChan EXCEPT ![i] = IF version = "main" THEN Append(@, "x") ELSE @]
        /\ UNCHANGED errChan1
  /\ UNCHANGED <<hVars, env, table, uVars, dVars, upG, errChan1Closed, rCloser, uploadChan, thPc>>

\* part2: defer wg.Done() of the remove goroutine
RemoveDone(i) ==
  /\ rmPc[i] = "deferDone"
  /\ rmPc' = [rmPc EXCEPT ![i] = "done"]
  /\ UNCHANGED <<hVars, env, table, remote, uVars, dVars, upG, errChan1, errChan1Closed,
                 rCloser, removeChan, uploadChan, thPc>>

\* part2: defer wg.Done() of the upload goroutine
UploadDone(i) ==
  /\ upG[i] = "deferDone"
  /\ upG' = [upG EXCEPT ![i] = "done"]
  /\ UNCHANGED <<hVars, env, table, remote, uVars, dVars, rmPc, errChan1, errChan1Closed,
                 rCloser, removeChan, uploadChan, thPc>>

\* faulty variant: the closer goroutine of processItem closes without wg.Wait()
ReuploadCloser_NoWait(i) ==
  /\ rCloser[i] = "wait"
  /\ errChan1Closed' = [errChan1Closed EXCEPT ![i] = TRUE]
  /\ rCloser' = [rCloser EXCEPT ![i] = "done"]
  /\ UNCHANGED <<hVars, env, table, remote, uVars, dVars, rmPc, upG, errChan1,
                 removeChan, uploadChan, thPc>>

\* part2: closer goroutine of processItem: wg.Wait(); close(errChan)
ReuploadCloser(i) ==
  /\ rCloser[i] = "wait"
  /\ rmPc[i] = "done"
  /\ upG[i] = "done"
  /\ errChan1Closed' = [errChan1Closed EXCEPT ![i] = TRUE]
  /\ rCloser' = [rCloser EXCEPT ![i] = "done"]
  /\ UNCHANGED <<hVars, env, table, remote, uVars, dVars, rmPc, upG, errChan1,
                 removeChan, uploadChan, thPc>>

\* the range loop over the re-upload error channel receives an error, which
\* becomes the item's error
ReuploadRangeErr(i) ==
  /\ pc[i] = "reupload"
  /\ errChan1[i] # <<>>
  /\ errChan1' = [errChan1 EXCEPT ![i] = Tail(@)]
  /\ result' = [result EXCEPT ![i] = Head(errChan1[i])]
  /\ pc' = [pc EXCEPT ![i] = "send"]
  /\ UNCHANGED <<hVars, env, table, remote, newUploadedId, dVars,
                 rmPc, upG, errChan1Closed, rCloser, removeChan, uploadChan, thPc>>

\* faulty variant: the item goroutine does not block on the re-upload error channel
\* and goes on when no error is ready
ReuploadRangeClosed_NoBlock(i) ==
  /\ pc[i] = "reupload"
  /\ errChan1[i] = <<>>
  /\ IF version = "main"
     THEN /\ result' = [result EXCEPT ![i] = Ok]
          /\ pc' = [pc EXCEPT ![i] = "deferDone"]
     ELSE /\ pc' = [pc EXCEPT ![i] = "update"]
          /\ UNCHANGED result
  /\ UNCHANGED <<hVars, env, table, remote, newUploadedId, dVars, rVars>>

\* the range loop over the re-upload error channel ends on the closed channel:
\* main is finished with the item, part2 goes on to updateUploadedId
ReuploadRangeClosed(i) ==
  /\ pc[i] = "reupload"
  /\ errChan1[i] = <<>>
  /\ errChan1Closed[i]
  /\ IF version = "main"
     THEN /\ result' = [result EXCEPT ![i] = Ok]
          /\ pc' = [pc EXCEPT ![i] = "deferDone"]
     ELSE /\ pc' = [pc EXCEPT ![i] = "update"]
          /\ UNCHANGED result
  /\ UNCHANGED <<hVars, env, table, remote, newUploadedId, dVars, rVars>>

\* main, third goroutine: <-removeChan
ThirdRecvRemove(i) ==
  /\ thPc[i] = "recvRemove"
  /\ removeChan[i] # <<>>
  /\ removeChan' = [removeChan EXCEPT ![i] = Tail(@)]
  /\ thPc' = [thPc EXCEPT ![i] = "recvUpload"]
  /\ UNCHANGED <<hVars, env, table, remote, uVars, dVars, rmPc, upG, errChan1,
                 errChan1Closed, rCloser, uploadChan>>

\* main, third goroutine: newUploadedId := <-uploadChan
ThirdRecvUpload(i) ==
  /\ thPc[i] = "recvUpload"
  /\ uploadChan[i] # <<>>
  /\ newUploadedId' = [newUploadedId EXCEPT ![i] = Head(uploadChan[i])]
  /\ uploadChan' = [uploadChan EXCEPT ![i] = Tail(@)]
  /\ thPc' = [thPc EXCEPT ![i] = "update"]
  /\ UNCHANGED <<hVars, env, table, remote, pc, result, dVars, rmPc,
                 upG, errChan1, errChan1Closed, rCloser, removeChan>>

\* faulty variant: the third goroutine ends without closing errChan1
ThirdUpdateReturn_NoClose(i) ==
  /\ thPc[i] = "update"
  /\ thPc' = [thPc EXCEPT ![i] = "done"]
  /\ \/ /\ table' = WriteUploadedId(i)
        /\ UNCHANGED errChan1
     \/ /\ errChan1' = [errChan1 EXCEPT ![i] = Append(@, <<"update", i, 0>>)]
        /\ UNCHANGED table
  /\ UNCHANGED errChan1Closed
  /\ UNCHANGED <<hVars, env, remote, uVars, dVars, rmPc, upG, rCloser, removeChan, uploadChan>>

\* main, third goroutine: updateUploadedId returns, then either the error is
\* sent on errChan1 or errChan1 is closed
ThirdUpdateReturn(i) ==
  /\ thPc[i] = "update"
  /\ thPc' = [thPc EXCEPT ![i] = "done"]
  /\ \/ /\ table' = WriteUploadedId(i)
        /\ errChan1Closed' = [errChan1Closed EXCEPT ![i] = TRUE]
        /\ UNCHANGED errChan1
     \/ /\ errChan1' = [errChan1 EXCEPT ![i] = Append(@, <<"update", i, 0>>)]
        /\ UNCHANGED <<table, errChan1Closed>>
  /\ UNCHANGED <<hVars, env, remote, uVars, dVars, rmPc, upG, rCloser, removeChan, uploadChan>>

\* ------------------------------------------------------------- specification

Next ==
  \/ Scan
  \/ HandlerRangeClosed
  \/ HandlerCloser
  \/ \E i \in It : HandlerRecv(i)
  \/ \E i \in It : ItemDone(i)
  \/ \E i \in It : NewClient(i)
  \/ \E i \in It : UpdateReturn(i)
  \/ \E i \in It : GetActiveReturn(i)
  \/ \E i \in It : \E k \in DOMAIN fetchPc[i] : FetchReturn(i, k)
  \/ \E i \in It : \E k \in DOMAIN fetchPc[i] : FetchSend(i, k)
  \/ \E i \in It : \E k \in DOMAIN fetchPc[i] : FetchDone(i, k)
  \/ \E i \in It : DownloadCloser(i)
  \/ \E i \in It : DownloadRangeErr(i)
  \/ \E i \in It : DownloadRangeClosed(i)
  \/ \E i \in It : UploadAdReturn(i)
  \/ \E i \in It : RemoveReturn(i)
  \/ \E i \in It : RemoveDone(i)
  \/ \E i \in It : UploadDone(i)
  \/ \E i \in It : ReuploadCloser(i)
  \/ \E i \in It : ReuploadRangeErr(i)
  \/ \E i \in It : ReuploadRangeClosed(i)
  \/ \E i \in It : ThirdRecvRemove(i)
  \/ \E i \in It : ThirdRecvUpload(i)
  \/ \E i \in It : ThirdUpdateReturn(i)

Spec == Init /\ [][Next]_vars

SpecItem == InitItem /\ [][Next]_vars

SpecFetch == InitFetch /\ [][Next]_vars

SpecTrio == InitTrio /\ [][Next]_vars

\* every external call returns and every goroutine that can take a step is
\* scheduled: some enabled step is eventually taken
FairSpec == Init /\ [][Next]_vars /\ WF_vars(Next)

\* uploadAd alone, every download returns and every goroutine that can take a
\* step is scheduled
FairSpecFetch == InitFetch /\ [][Next]_vars /\ WF_vars(Next)

\* ------------------------------------------------------------------ readings

\* the item goroutines have been launched
Launched == hCloser # "idle"

\* the error of item i, if its reconciliation failed
Failed(i) == result[i] # Pending /\ result[i] # Ok

\* image goroutine k of item i has had its download fail
FetchFailed(i, k) ==
  fetchPc[i][k] \in {"send", "deferDone", "done"} /\ s3Images[i][k] = Nil

\* downloadS3Images of item i has returned
DownloadReturned(i) == dlRet[i].st # "pending"

\* item i was posted and is being re-uploaded
Reuploading(i) == rmPc[i] # "idle"

\* c.RemoveAd of item i has returned
RemoveReturned(i) == rmPc[i] \in {"deferDone", "done"}

RemoveSucceeded(i) == RemoveReturned(i) /\ bItems[i].AdUploadedId \notin remote[i]

RemoveFailed(i) == RemoveReturned(i) /\ bItems[i].AdUploadedId \in remote[i]

\* c.UploadAd of item i has returned an id
CreateSucceeded(i) == upPc[i] = "ret" /\ env[i].NewId \in remote[i]

\* updateUploadedId has written the record of item i
Written(i) == table[i] # bItems[i]

\* ---------------------------------------------------------------------- C1

\* C1: once Handler has returned after a successful scan, it returned nil only
\* if every item's reconciliation succeeded, and an error only if that error
\* is the error of an item whose reconciliation failed.
C1_ErrorIffSomeItemFailed ==
  (hPc = "returned" /\ Launched) =>
     /\ hRet = Nil => \A i \in It : result[i] = Ok
     /\ hRet # Nil => \E i \in It : Failed(i) /\ hRet = result[i]

C1_Witness ==
  /\ hPc = "returned"
  /\ \E i, j \in It : result[i] = Ok /\ Failed(j) /\ hRet = result[j]

\* ---------------------------------------------------------------------- C2

ItemGoroutinesFinished(i) ==
  /\ pc[i] = "done"
  /\ \A k \in DOMAIN fetchPc[i] : fetchPc[i][k] = "done"
  /\ dlCloser[i] \in {"idle", "done"}
  /\ rmPc[i] \in {"idle", "done"}
  /\ upG[i] \in {"idle", "done"}
  /\ rCloser[i] \in {"idle", "done"}
  /\ thPc[i] \in {"idle", "done"}

\* C3 as stated: when every external call has returned and no goroutine can
\* take another step, every item goroutine, every goroutine it spawned and
\* the closer goroutine have run to completion.
C3_NoGoroutineBlockedForever ==
  (Launched /\ ~ENABLED Next) =>
     /\ hCloser = "done"
     /\ \A i \in It : ItemGoroutinesFinished(i)

\* ---------------------------------------------------------------------- C4

\* C4: on the re-upload path the record of an item is written only after both
\* c.RemoveAd and c.UploadAd have returned successfully, and the id written is
\* the one c.UploadAd returned.
C4_WriteOnlyAfterRemoveAndCreate ==
  \A i \in DOMAIN bItems :
    (Reuploading(i) /\ Written(i)) =>
       /\ RemoveSucceeded(i)
       /\ CreateSucceeded(i)
       /\ \A k \in DOMAIN fetchPc[i] : fetchPc[i][k] = "done" /\ ~FetchFailed(i, k)
       /\ table[i].AdUploadedId = env[i].NewId
       /\ table[i].AdUploadedId \in NewIds

C4_Witness ==
  \E i \in DOMAIN bItems :
    /\ Reuploading(i) /\ Written(i)
    /\ Len(bItems[i].AdImages) > 0
    /\ env[i].NewId = 3

\* ---------------------------------------------------------------------- C5

\* C5: on the re-upload path, when c.RemoveAd has failed and c.UploadAd has
\* succeeded, the record of the item is not written and the item's error,
\* once it has one, is the error of c.RemoveAd.
C5_RemoveFailureKeepsRecord ==
  \A i \in DOMAIN bItems :
    (Reuploading(i) /\ RemoveFailed(i) /\ CreateSucceeded(i)) =>
       /\ table[i] = bItems[i]
       /\ result[i] \in {Pending, <<"remove", i, 0>>}
       /\ pc[i] = "done" => result[i] = <<"remove", i, 0>>

C5_Witness ==
  \E i \in DOMAIN bItems :
    /\ Reuploading(i) /\ RemoveFailed(i) /\ CreateSucceeded(i)
    /\ result[i] = <<"remove", i, 0>>
    /\ table[i].AdUploadedId = OldId

\* ---------------------------------------------------------------------- C6

\* C6: when downloadS3Images returns without error, the sequence it returns
\* has one element per key and element k is the blob of key k.
C6_ResultInKeyOrder ==
  \A i \in DOMAIN bItems :
    dlRet[i].st = "ok" =>
       /\ Len(dlRet[i].imgs) = Len(bItems[i].AdImages)
       /\ \A k \in 1..Len(bItems[i].AdImages) :
            dlRet[i].imgs[k] = <<"img", bItems[i].AdImages[k]>>

C6_Witness ==
  \E i \in DOMAIN bItems :
    /\ dlRet[i].st = "ok"
    /\ bItems[i].AdImages = <<2, 1>>

\* ---------------------------------------------------------------------- C7

C8_ErrorIffSomeFetchFailed ==
  \A i \in DOMAIN bItems :
    /\ dlRet[i].st = "ok" =>
         /\ dlRet[i].err = Nil
         /\ \A k \in DOMAIN fetchPc[i] : fetchPc[i][k] = "done" /\ ~FetchFailed(i, k)
    /\ dlRet[i].st = "err" =>
         /\ dlRet[i].imgs = <<>>
         /\ \E k \in DOMAIN fetchPc[i] : FetchFailed(i, k) /\ dlRet[i].err = <<"fetch", i, k>>

C8_Witness ==
  \E i \in DOMAIN bItems :
    /\ dlRet[i].st = "err"
    /\ \E k, l \in DOMAIN fetchPc[i] : FetchFailed(i, k) /\ s3Images[i][l] # Nil

\* ---------------------------------------------------------------------- C9

\* C9 as stated: downloadS3Images of no keys returns an empty sequence and no
\* error, and no goroutine has been started for it.
C9_NoKeysNoGoroutine ==
  \A i \in DOMAIN bItems :
    (bItems[i].AdImages = <<>> /\ DownloadReturned(i)) =>
       /\ dlRet[i] = [st |-> "ok", imgs |-> <<>>, err |-> Nil]
       /\ fetchPc[i] = <<>>
       /\ dlCloser[i] = "idle"

\* C9 amended: downloadS3Images of no keys returns an empty sequence and no
\* error and starts no image goroutine; it does start the closer goroutine
\* and returns only after that goroutine has closed errChan.
C9_NoKeysOnlyCloser ==
  \A i \in DOMAIN bItems :
    (bItems[i].AdImages = <<>> /\ upPc[i] # "idle") =>
       /\ fetchPc[i] = <<>>
       /\ dlCloser[i] # "idle"
       /\ DownloadReturned(i) =>
            /\ dlRet[i] = [st |-> "ok", imgs |-> <<>>, err |-> Nil]
            /\ dlCloser[i] = "done"

C9_Witness ==
  \E i \in DOMAIN bItems :
    /\ bItems[i].AdImages = <<>>
    /\ dlRet[i].st = "ok"

\* --------------------------------------------------------------------- C10

\* GetActiveAd and time.Parse of a posted item i have succeeded
StatusKnown(i) ==
  /\ bItems[i].AdUploadedId # 0
  /\ bItems[i].AdUploadedAt # ""
  /\ pc[i] \notin {"idle", "start", "getActive"}
  /\ result[i] \notin {<<"client", i, 0>>, <<"status", i, 0>>}

\* C10: for a posted item whose status query and timestamp parse succeeded,
\* the re-upload is started exactly when the rank is above ReuploadOrder or
\* the age is above ReuploadHours hours, both strictly.
C10_ReuploadIffStrictlyOld ==
  \A i \in DOMAIN bItems :
    StatusKnown(i) =>
       (Reuploading(i) <=>
          \/ env[i].Order >= bItems[i].ReuploadOrder + 1
          \/ env[i].Age >= bItems[i].ReuploadHours * Hour + 1)

C10_Witness ==
  \E i \in DOMAIN bItems :
    /\ StatusKnown(i)
    /\ env[i].Order = bItems[i].ReuploadOrder + 1
    /\ env[i].Age = 0
    /\ bItems[i].ReuploadHours > 0
    /\ Reuploading(i)

C10_BoundaryAgeReached ==
  \E i \in DOMAIN bItems :
    /\ StatusKnown(i)
    /\ env[i].Order = bItems[i].ReuploadOrder
    /\ env[i].Age = bItems[i].ReuploadHours * Hour
    /\ ~Reuploading(i)
    /\ result[i] = Ok

\* --------------------------------------------------------------------- C11

\* item i is past client.NewWithSessionId, which succeeded
ClientBuilt(i) ==
  pc[i] \notin {"idle", "start"} /\ result[i] # <<"client", i, 0>>

\* C11: an item with AdUploadedId = 0 is never in c.GetActiveAd, never has a
\* remove, upload or third goroutine, and once its client is built it is in
\* (or past) uploadAd; its record is written only with the id c.UploadAd
\* returned.
C11_UnpostedTakesCreatePath ==
  \A i \in DOMAIN bItems :
    bItems[i].AdUploadedId = 0 =>
       /\ pc[i] \notin {"getActive", "reupload"}
       /\ result[i] \notin {<<"status", i, 0>>, <<"parse", i, 0>>, <<"remove", i, 0>>}
       /\ rmPc[i] = "idle" /\ upG[i] = "idle" /\ thPc[i] = "idle" /\ rCloser[i] = "idle"
       /\ ClientBuilt(i) => upPc[i] # "idle" /\ dlCloser[i] # "idle"
       /\ Written(i) => CreateSucceeded(i) /\ table[i].AdUploadedId = env[i].NewId

C11_Witness ==
  \E i \in DOMAIN bItems :
    /\ bItems[i].AdUploadedId = 0
    /\ Len(bItems[i].AdImages) > 0
    /\ Written(i)
    /\ pc[i] = "done"

\* --------------------------------------------------------------------- C12

\* item i was never uploaded
Unposted(i) == bItems[i].AdUploadedId = 0

\* item i is uploaded and ranked too low or too old
Stale(i) ==
  /\ bItems[i].AdUploadedId # 0
  /\ \/ env[i].Order > bItems[i].ReuploadOrder
     \/ env[i].Age > bItems[i].ReuploadHours * Hour

\* C12: when Handler has returned and no item has failed, it has returned nil,
\* every item that was never uploaded or was stale has a record whose
\* AdUploadedId is the id its c.UploadAd returned, and every other item has an
\* unchanged record and has had no remove and no upload.
C12_AllSucceedOutcome ==
  (hPc = "returned" /\ Launched /\ \A i \in It : ~Failed(i)) =>
     /\ hRet = Nil
     /\ \A i \in It :
          IF Unposted(i) \/ Stale(i)
          THEN /\ CreateSucceeded(i)
               /\ table[i].AdUploadedId = env[i].NewId
               /\ table[i].AdUploadedAt = "now"
               /\ Stale(i) => RemoveSucceeded(i)
          ELSE /\ table[i] = bItems[i]
               /\ remote[i] = {bItems[i].AdUploadedId}
               /\ rmPc[i] = "idle" /\ upPc[i] = "idle" /\ fetchPc[i] = <<>>

C12_Witness ==
  /\ hPc = "returned" /\ hRet = Nil
  /\ \E i, j, l \in It :
       /\ Unposted(i) /\ table[i].AdUploadedId = env[i].NewId
       /\ Stale(j) /\ table[j].AdUploadedId = env[j].NewId
       /\ ~Unposted(l) /\ ~Stale(l) /\ table[l] = bItems[l]
       /\ Len(bItems[i].AdImages) > 0

\* --------------------------------------------------------------------- C13

\* C13: an item whose reconciliation has failed has the record it had when
\* the table was scanned, AdUploadedId and AdUploadedAt included.
C13_FailureKeepsRecord ==
  \A i \in DOMAIN bItems :
    Failed(i) =>
       /\ table[i] = bItems[i]
       /\ table[i].AdUploadedId = bItems[i].AdUploadedId
       /\ table[i].AdUploadedAt = bItems[i].AdUploadedAt

C13_Witness ==
  \E i \in DOMAIN bItems :
    /\ Reuploading(i)
    /\ RemoveSucceeded(i) /\ CreateSucceeded(i)
    /\ result[i] = <<"update", i, 0>>
    /\ pc[i] = "done"
    /\ table[i].AdUploadedId = OldId

\* --------------------------------------------------------------------- C14

\* the remote calls of item i have succeeded and its updateUploadedId has
\* returned without writing the record, that is with an error
UpdateFailed(i) ==
  /\ CreateSucceeded(i)
  /\ Reuploading(i) => RemoveSucceeded(i)
  /\ ~Written(i)
  /\ IF version = "main" /\ Reuploading(i)
     THEN thPc[i] = "done"
     ELSE pc[i] \in {"send", "deferDone", "done"}

\* C14: when the remote calls of an item have succeeded and updateUploadedId
\* has failed, the item's error is the error of updateUploadedId: it is
\* either already the item's result or, in main.go's re-upload, the one value
\* waiting on errChan1 for the item's range loop.
C14_UpdateErrorReported ==
  \A i \in DOMAIN bItems :
    UpdateFailed(i) =>
       IF pc[i] = "reupload"
       THEN result[i] = Pending /\ errChan1[i] = << <<"update", i, 0>> >> /\ ~errChan1Closed[i]
       ELSE result[i] = <<"update", i, 0>>

C14_Witness ==
  \E i \in DOMAIN bItems :
    /\ UpdateFailed(i)
    /\ Reuploading(i)
    /\ hPc = "returned"
    /\ hRet = <<"update", i, 0>>

C14_WitnessFirstUpload ==
  \E i \in DOMAIN bItems :
    /\ UpdateFailed(i)
    /\ Unposted(i)
    /\ hRet = <<"update", i, 0>>

\* --------------------------------------------------------------------- C15

\* no remove, no fetch, no create and no write has been made for item i
NoCallsMade(i) ==
  /\ rmPc[i] = "idle"
  /\ upG[i] = "idle"
  /\ thPc[i] = "idle"
  /\ rCloser[i] = "idle"
  /\ upPc[i] = "idle"
  /\ fetchPc[i] = <<>>
  /\ dlCloser[i] = "idle"
  /\ newUploadedId[i] = 0
  /\ table[i] = bItems[i]
  /\ remote[i] = {bItems[i].AdUploadedId}

\* the stored timestamp of posted item i does not parse and its status query
\* has returned without error
ParseFailed(i) ==
  /\ bItems[i].AdUploadedId # 0
  /\ ~ParseOk(bItems[i].AdUploadedAt)
  /\ pc[i] \notin {"idle", "start", "getActive"}
  /\ result[i] \notin {<<"client", i, 0>>, <<"status", i, 0>>}

\* C15: a posted item whose c.GetActiveAd failed, or whose AdUploadedAt did
\* not parse, ends with that error, and no remove, fetch, create or record
\* write is ever made for it.
C15_StatusOrParseFailureStops ==
  \A i \in DOMAIN bItems :
    /\ ParseFailed(i) => result[i] = <<"parse", i, 0>>
    /\ result[i] \in {<<"status", i, 0>>, <<"parse", i, 0>>} =>
         /\ bItems[i].AdUploadedId # 0
         /\ pc[i] \in {"send", "deferDone", "done"}
         /\ NoCallsMade(i)
         /\ hPc = "returned" => hRet = result[i]

C15_Witness ==
  \E i \in DOMAIN bItems :
    /\ ParseFailed(i)
    /\ pc[i] = "done"
    /\ hPc = "returned"

C15_WitnessStatus ==
  \E i \in DOMAIN bItems :
    /\ result[i] = <<"status", i, 0>>
    /\ pc[i] = "done"
    /\ hPc = "returned"

\* --------------------------------------------------------------------- C16

\* getBolhaItems has failed
ScanFailed == hRet \in {<<"scan", 0, 0>>, <<"unmarshal", 0, 0>>}

\* nothing has been started for record i of the table
Untouched(i) ==
  /\ pc[i] = "idle"
  /\ result[i] = Pending
  /\ rmPc[i] = "idle"
  /\ upG[i] = "idle"
  /\ thPc[i] = "idle"
  /\ rCloser[i] = "idle"
  /\ upPc[i] = "idle"
  /\ fetchPc[i] = <<>>
  /\ dlCloser[i] = "idle"
  /\ newUploadedId[i] = 0
  /\ table[i].AdUploadedId # env[i].NewId
  /\ remote[i] = IF table[i].AdUploadedId = 0 THEN {} ELSE {table[i].AdUploadedId}

\* C16: when getBolhaItems fails, Handler has returned that error, no item
\* goroutine and no closer goroutine exists, and no client, fetch, status
\* query, remove, create or record write has happened for any record.
C16_ScanFailureLaunchesNothing ==
  ScanFailed =>
    /\ hPc = "returned"
    /\ bItems = <<>>
    /\ hCloser = "idle"
    /\ errChan = "open"
    /\ \A i \in It : Untouched(i)

C16_Witness ==
  /\ ScanFailed
  /\ hPc = "returned"
  /\ Len(table) = MaxItems
  /\ \E i \in It : table[i].AdUploadedId = 0
  /\ \E i \in It : table[i].AdUploadedId # 0

\* --------------------------------------------------------------------- C17

\* C17: when every call returns and goroutines that can run are scheduled,
\* Handler eventually returns, whatever the number of items and whatever the
\* outcome of each call.
C17_HandlerEventuallyReturns == <>(hPc = "returned")

\* Handler has returned the error of a failed c.RemoveAd while the upload of
\* the same item succeeded and, in main.go, its third goroutine is still
\* waiting on removeChan
C17_Witness ==
  \E i \in DOMAIN bItems :
    /\ hPc = "returned"
    /\ hRet = <<"remove", i, 0>>
    /\ RemoveFailed(i)
    /\ CreateSucceeded(i)
    /\ version = "main" => thPc[i] = "recvRemove"

\* Handler has returned nil for an empty table
C17_WitnessNoItems == hPc = "returned" /\ hRet = Nil /\ It = {} /\ hCloser = "done"

\* --------------------------------------------------------------------- C18

\* a goroutine of item i can still send on, or close, the re-upload error
\* channel
ReuploadChanInUse(i) ==
  \/ rmPc[i] = "run"
  \/ upG[i] = "run"
  \/ thPc[i] \in {"recvRemove", "recvUpload", "update"}
  \/ rCloser[i] = "wait"

\* C18: a closed channel has no goroutine left that can send on it or close
\* it: errChan is closed only when every item goroutine is done, the error
\* channel of downloadS3Images only when every fetch goroutine is done, and
\* the re-upload error channel only by its single closing goroutine (the third
\* goroutine in main.go, the closer in processItem) after the remove and the
\* upload goroutine have passed their sends.
C18_NoSendOrCloseAfterClose ==
  /\ errChan = "closed" => hCloser = "done" /\ \A i \in It : pc[i] = "done"
  /\ \A i \in It :
       /\ dlClosed[i] =>
            /\ dlCloser[i] = "done"
            /\ \A k \in DOMAIN fetchPc[i] : fetchPc[i][k] = "done"
       /\ errChan1Closed[i] =>
            /\ ~ReuploadChanInUse(i)
            /\ IF version = "main"
               THEN thPc[i] = "done" /\ rCloser[i] = "idle"
               ELSE rCloser[i] = "done" /\ thPc[i] = "idle"

C18_Witness ==
  /\ errChan = "closed"
  /\ \E i \in It : dlClosed[i] /\ errChan1Closed[i]
  /\ \E i \in It : result[i] = Ok /\ ~Reuploading(i)

\* --------------------------------------------------------------------- C19

\* downloadS3Images of item i has returned on the first error
ReturnedOnError(i) == dlRet[i].st = "err"

\* every image goroutine and the closer goroutine of item i have ended
FetchGoroutinesEnded(i) ==
  /\ \A k \in DOMAIN fetchPc[i] : fetchPc[i][k] = "done"
  /\ dlCloser[i] = "done"
  /\ dlClosed[i]

\* an image goroutine at its send can complete it
SendNeverBlocks ==
  \A i \in It : \A k \in DOMAIN fetchPc[i] :
    fetchPc[i][k] = "send" => ENABLED FetchSend(i, k)

SomeReturnedOnError == \E i \in It : ReturnedOnError(i)

AllReturnedOnErrorEnded == \A i \in It : ReturnedOnError(i) => FetchGoroutinesEnded(i)

\* C19: the send of an image goroutine on errChan is always possible, and
\* after downloadS3Images has returned on the first error every image
\* goroutine and the closer goroutine still end.
C19_FetchGoroutinesEndAfterErrorReturn ==
  /\ []SendNeverBlocks
  /\ SomeReturnedOnError ~> AllReturnedOnErrorEnded

\* downloadS3Images has returned on the error of one image while the other
\* image goroutine, which failed too, has sent its error to the buffer that
\* nobody reads any more, and all goroutines have ended
C19_Witness ==
  \E i \in It :
    /\ ReturnedOnError(i)
    /\ Len(fetchPc[i]) = MaxImages
    /\ \A k \in DOMAIN fetchPc[i] : FetchFailed(i, k)
    /\ dlErrChan[i] # <<>>
    /\ FetchGoroutinesEnded(i)

\* downloadS3Images has returned on an error while another image goroutine is
\* at its send
C19_WitnessLateSend ==
  \E i \in It :
    /\ ReturnedOnError(i)
    /\ \E k \in DOMAIN fetchPc[i] : fetchPc[i][k] = "send"

====
